---- MODULE Spec2Model ----
(***************************************************************************)
(* The real-time chat delivery core of Taskline-BE: the ChatServer actor   *)
(* (chat_server.rs), the per-socket WebSocketConnection actor              *)
(* (web_socket_server.rs) and the HTTP message ingest (chat.rs), over a    *)
(* document store holding the chats, chat_users and messages collections.  *)
(***************************************************************************)
EXTENDS Integers, Sequences, FiniteSets, TLC

\* ------------------------------------------------------------------ bounds
\* Spec: socket sessions ever opened, chat messages ever submitted, clock ticks
MaxSess == 3
MaxMsgs == 1
MaxClock == 1
\* SpecBurst: two messages in flight at once, between two sessions
BurstSess == 2
BurstMsgs == 2
\* SpecCore: the store is up, one conversation
CoreSess == 2
CoreMsgs == 1
\* SpecFrames: sessions, frames received over all sessions, frames that parsed
FrameSess == 1
MaxFrames == 2
FrameMsgs == 1
\* SpecHttp: POSTs ever made
HttpMsgs == 2
\* SpecHeartbeat: sessions, frames received over all sessions
HbSess == 1
HbFrames == 1
\* SpecClock: sessions, messages, clock ticks
ClockSess == 1
ClockMsgs == 2
ClockTicks == 1
\* SpecDelete: messages posted, conversation deletes
DelMsgs == 1
DelOps == 1
\* SpecBlocking: sessions
BlockSess == 2
\* SpecDup: sessions, messages
DupSess == 2
DupMsgs == 1
\* SpecSignal: sessions, signals ever posted
SigSess == 2
MaxSignals == 1

\* SpecInvite: invitations sent, calls answering them
MaxInvites == 1
MaxCalls == 2

\* SpecModify: messages posted, edit and delete calls
ModMsgs == 1
ModOps == 2

\* ------------------------------------------------------------------ inputs
Users == {"u1", "u2", "u3"}
\* "c0" is an id no conversation document carries
ChatIds == {"c1", "c0"}

VARIABLES
    chats,       \* store: collection "chats", _id -> the Chat document
    chat_users,  \* store: collection "chat_users", set of <<chat_id, user_id>>
    messages,    \* store: collection "messages", in insertion order
    store_ok,    \* whether the store answers; while it does not, every call is Err
    now,         \* the wall clock read by Utc::now()
    sessions,    \* ChatServer.sessions : HashMap<user id, Recipient<ChatMessage>>
    mailbox,     \* the ChatServer actor's mailbox (FIFO)
    conns,       \* the WebSocketConnection actors, in the order they were started
    reqs,        \* the chat messages submitted so far, with the position of
                 \* the future that serves each
    team_invitations, \* store: collection "team_invitations", in insertion order
    user_teams,  \* store: collection "user_teams", in insertion order
    calls        \* the other calls made so far (invitation answers, message edits),
                 \* with the position of the future that serves each

\* what the team endpoints and the message edits add to the state
teamVars == <<team_invitations, user_teams, calls>>

vars == <<chats, chat_users, messages, store_ok, now, sessions, mailbox, conns, reqs,
          team_invitations, user_teams, calls>>

\* ------------------------------------------------------------------ helpers
\* HashMap::new()
EmptyMap == [u \in {} |-> 0]

\* Vec::contains / iter().any(|p| p == x)
Contains(seq, x) == \E i \in 1..Len(seq) : seq[i] = x

\* HashMap::insert(k, v): a present key is overwritten
MapInsert(map, k, v) == [x \in (DOMAIN map) \cup {k} |-> IF x = k THEN v ELSE map[x]]

\* HashMap::remove(k)
MapRemove(map, k) == [x \in (DOMAIN map) \ {k} |-> map[x]]

\* an envelope in the hub's mailbox; sess is the actor that sent it
Envelope(type, sess, user, chat, req) ==
    [type |-> type, sess |-> sess, user_id |-> user, chat_id |-> chat, req |-> req]

\* struct Chat as create_chat builds it at the instant t: the participants as
\* posted, is_group, and created_at = last_message_at = t
ChatDoc(ps, t) ==
    [participants |-> ps, is_group |-> Len(ps) > 2, created_at |-> t,
     last_message_at |-> t]

\* collection.find_one(doc!{"_id": id}) on "chats"
FindChat(id) ==
    IF ~store_ok THEN "err" ELSE IF id \in DOMAIN chats THEN "some" ELSE "none"

\* find_one(doc!{"_id": id, "participants": user}) on "chats"
FindChatWithParticipant(id, user) ==
    IF ~store_ok THEN "err"
    ELSE IF id \in DOMAIN chats /\ Contains(chats[id].participants, user) THEN "some" ELSE "none"

\* find_one(doc!{"chat_id": c, "user_id": u}) on "chat_users"
FindChatUser(c, u) ==
    IF ~store_ok THEN "err" ELSE IF <<c, u>> \in chat_users THEN "some" ELSE "none"

\* the membership test left out: every sender passes
IsParticipantAny(participants, sender) == TRUE

\* !chat.participants.contains(&sender) is the rejection test of both hub handlers
IsParticipant(participants, sender) == Contains(participants, sender)

\* struct Message, as the hub builds it; the position of the request stands
\* for the minted Uuid and for the content
NewMessage(r) ==
    [id |-> r, id_chat |-> reqs[r].id_chat, sender_id |-> reqs[r].sender_id,
     created_at |-> reqs[r].created_at, content |-> "m"]

\* struct ChatMessage, the push sent to a socket actor
ChatMessage(r) ==
    [sender_id |-> reqs[r].sender_id, chat_id |-> reqs[r].id_chat, message |-> r]

\* a do_send that never reaches the actor
DoSendLost(cs, snap, participant, cm) == cs

\* addr.do_send(ChatMessage{..}) for one participant: sent when the snapshot of the
\* registry holds an address for it; a stopped actor's mailbox is closed and the
\* error is ignored. The socket actor writes each ChatMessage out in mailbox order.
DoSend(cs, snap, participant, cm) ==
    IF participant \in DOMAIN snap /\ cs[snap[participant]].state # "closed"
    THEN [cs EXCEPT ![snap[participant]].pushed = Append(@, cm)]
    ELSE cs

\* for participant in chat.participants { if let Some(addr) = sessions.get(..) {..} }
RECURSIVE FanOut(_, _, _, _)
FanOut(cs, snap, participants, cm) ==
    IF participants = <<>> THEN cs
    ELSE FanOut(DoSend(cs, snap, Head(participants), cm), snap, Tail(participants), cm)

\* ------------------------------------------------------------------ initial state
Init ==
    /\ chats = [c \in {"c1"} |-> ChatDoc(<<"u1", "u2">>, 0)]
    /\ chat_users = {<<"c1", "u1">>, <<"c1", "u2">>}
    /\ messages = <<>>
    /\ store_ok = TRUE
    /\ now = 0
    /\ sessions = EmptyMap
    /\ mailbox = <<>>
    /\ conns = <<>>
    /\ reqs = <<>>
    /\ team_invitations = <<>>
    /\ user_teams = <<[team_id |-> "t1", user_id |-> "u2", role |-> "admin"]>>
    /\ calls = <<>>

\* ------------------------------------------------------------------ environment
\* the store stops answering, and answers again
StoreFails ==
    /\ store_ok
    /\ store_ok' = FALSE
    /\ UNCHANGED teamVars
    /\ UNCHANGED <<chats, chat_users, messages, now, sessions, mailbox, conns, reqs>>

StoreRecovers ==
    /\ ~store_ok
    /\ store_ok' = TRUE
    /\ UNCHANGED teamVars
    /\ UNCHANGED <<chats, chat_users, messages, now, sessions, mailbox, conns, reqs>>

\* time passes
Tick ==
    /\ now' = now + 1
    /\ UNCHANGED teamVars
    /\ UNCHANGED <<chats, chat_users, messages, store_ok, sessions, mailbox, conns, reqs>>

\* ------------------------------------------------------------------ frames
\* The text of an inbound frame is modelled by the JSON object it holds, as a
\* record from its keys to their values. struct IncomingMessage is what the socket
\* deserializes; the other shapes are the frames a client of the documented
\* protocol sends.
IncomingFrame(c) == [recipient_id |-> "u2", id_chat |-> c, message |-> "m"]
ChatFrame(c) == [chat_id |-> c, content |-> "m"]
SignalFrame(c) == [signalType |-> "offer", chat_id |-> c]
SignalContentFrame(c) == [signalType |-> "offer", chat_id |-> c, content |-> "m"]
\* text that is no JSON object
Garbage == [text |-> "{"]

Frames ==
    {Garbage} \cup UNION {{IncomingFrame(c), ChatFrame(c), SignalFrame(c),
                           SignalContentFrame(c)} : c \in ChatIds}

\* what a session remembers of a frame: the frame and the request it became (0: none)
NoFrame == [frame |-> [none |-> ""], req |-> 0]

\* serde_json::from_str::<IncomingMessage>: every field of the struct must be a key
\* of the object, keys the struct does not name are ignored
ParseIncoming(f) ==
    IF {"recipient_id", "id_chat", "message"} \subseteq DOMAIN f THEN "ok" ELSE "err"

\* the frames the sessions cs have handled so far
RECURSIVE FramesReceived(_)
FramesReceived(cs) ==
    IF cs = <<>> THEN 0 ELSE Head(cs).received + FramesReceived(Tail(cs))

\* ------------------------------------------------------------------ socket sessions
\* hb(): run_interval(Duration::from_secs(5), ..) and the silence it tolerates,
\* Duration::from_secs(10)
HeartbeatInterval == 5
ClientTimeout == 10

\* the upgrade is accepted and started() runs: Connect is sent to the hub and the
\* actor waits for the reply before it reads any frame
WsStarted(u, c) ==
    /\ conns' = Append(conns, [id |-> u, state |-> "opening", accepted |-> FALSE,
                               deregistered |-> 0, pushed |-> <<>>,
                               received |-> 0, dropped |-> 0, last |-> NoFrame,
                               hb_due |-> HeartbeatInterval, cause |-> ""])
    /\ mailbox' = Append(mailbox, Envelope("Connect", Len(conns) + 1, u, c, 0))
    /\ UNCHANGED teamVars
    /\ UNCHANGED <<chats, chat_users, messages, store_ok, now, sessions, reqs>>

\* a hub that stops the session it denies
HandleConnectStopsDenied ==
    /\ mailbox # <<>>
    /\ Head(mailbox).type = "Connect"
    /\ LET m == Head(mailbox)
           allowed == (FindChatUser(m.chat_id, m.user_id) = "some")
       IN /\ sessions' = IF allowed THEN MapInsert(sessions, m.user_id, m.sess) ELSE sessions
          /\ conns' = [conns EXCEPT ![m.sess].state = IF allowed THEN "live" ELSE "closed",
                                    ![m.sess].accepted = allowed]
    /\ mailbox' = Tail(mailbox)
    /\ UNCHANGED teamVars
    /\ UNCHANGED <<chats, chat_users, messages, store_ok, now, reqs>>

\* Handler<Connect> entering the endpoint without looking the pair up
HandleConnectUngated ==
    /\ mailbox # <<>>
    /\ Head(mailbox).type = "Connect"
    /\ LET m == Head(mailbox)
           allowed == (FindChatUser(m.chat_id, m.user_id) = "some")
       IN /\ sessions' = MapInsert(sessions, m.user_id, m.sess)
          /\ conns' = [conns EXCEPT ![m.sess].state = "live", ![m.sess].accepted = allowed]
    /\ mailbox' = Tail(mailbox)
    /\ UNCHANGED teamVars
    /\ UNCHANGED <<chats, chat_users, messages, store_ok, now, reqs>>

\* Handler<Connect>: the endpoint enters the registry only when chat_users holds
\* the pair; the reply is () either way, which ends the session's wait
HandleConnect ==
    /\ mailbox # <<>>
    /\ Head(mailbox).type = "Connect"
    /\ LET m == Head(mailbox)
           allowed == (FindChatUser(m.chat_id, m.user_id) = "some")
       IN /\ sessions' = IF allowed THEN MapInsert(sessions, m.user_id, m.sess) ELSE sessions
          /\ conns' = [conns EXCEPT ![m.sess].state = "live", ![m.sess].accepted = allowed]
    /\ mailbox' = Tail(mailbox)
    /\ UNCHANGED teamVars
    /\ UNCHANGED <<chats, chat_users, messages, store_ok, now, reqs>>

\* Handler<Connect> seen at the grain of the store call: the hub takes the Connect
\* up and enters futures::executor::block_on(find_one). Its thread waits there, and
\* no handler of the hub runs until the store has answered
HandleConnectBlockOn ==
    /\ mailbox # <<>>
    /\ Head(mailbox).type = "Connect"
    /\ mailbox' = [mailbox EXCEPT ![1].type = "ConnectBlocked"]
    /\ UNCHANGED teamVars
    /\ UNCHANGED <<chats, chat_users, messages, store_ok, now, sessions, conns, reqs>>

\* the store answers and handle() runs to its end
HandleConnectResume ==
    /\ mailbox # <<>>
    /\ Head(mailbox).type = "ConnectBlocked"
    /\ LET m == Head(mailbox)
           allowed == (FindChatUser(m.chat_id, m.user_id) = "some")
       IN /\ sessions' = IF allowed THEN MapInsert(sessions, m.user_id, m.sess) ELSE sessions
          /\ conns' = [conns EXCEPT ![m.sess].state = "live", ![m.sess].accepted = allowed]
    /\ mailbox' = Tail(mailbox)
    /\ UNCHANGED teamVars
    /\ UNCHANGED <<chats, chat_users, messages, store_ok, now, reqs>>

\* stopped() forgetting to tell the hub
WsStoppedSilently(s) ==
    /\ s \in DOMAIN conns
    /\ conns[s].state = "live"
    /\ conns' = [conns EXCEPT ![s].state = "closed"]
    /\ UNCHANGED teamVars
    /\ UNCHANGED <<chats, chat_users, messages, store_ok, now, sessions, mailbox, reqs>>

\* ctx.stop() (close frame, protocol error, heartbeat timeout) and then stopped():
\* Disconnect{user_id} is posted to the hub
WsStopped(s) ==
    /\ s \in DOMAIN conns
    /\ conns[s].state = "live"
    /\ conns' = [conns EXCEPT ![s].state = "closed"]
    /\ mailbox' = Append(mailbox, Envelope("Disconnect", s, conns[s].id, "", 0))
    /\ UNCHANGED teamVars
    /\ UNCHANGED <<chats, chat_users, messages, store_ok, now, sessions, reqs>>

\* ctx.stop() and then stopped(), for a stated cause
Stop(s, cause) ==
    /\ conns' = [conns EXCEPT ![s].state = "closed", ![s].cause = cause]
    /\ mailbox' = Append(mailbox, Envelope("Disconnect", s, conns[s].id, "", 0))
    /\ UNCHANGED teamVars
    /\ UNCHANGED <<chats, chat_users, messages, store_ok, now, sessions, reqs>>

\* StreamHandler, Ok(ws::Message::Close(_)) => ctx.stop()
WsClose(s) ==
    /\ s \in DOMAIN conns
    /\ conns[s].state = "live"
    /\ Stop(s, "close_frame")

\* StreamHandler, Err(e) => { println!(..); ctx.stop() }
WsError(s) ==
    /\ s \in DOMAIN conns
    /\ conns[s].state = "live"
    /\ Stop(s, "transport_error")

\* how long before the interval fires next a Ping or Pong arrives: right before
\* it, or a whole interval before it
PongOffsets == {1, HeartbeatInterval}

\* StreamHandler, Ping and Pong arms: self.hb = Instant::now(). hb_due is what
\* Instant::now().duration_since(act.hb) will read when the interval fires next,
\* in seconds; the frame arrives d seconds before that
WsPong(s, d) ==
    /\ s \in DOMAIN conns
    /\ conns[s].state = "live"
    /\ conns[s].hb_due # d
    /\ conns' = [conns EXCEPT ![s].hb_due = d]
    /\ UNCHANGED teamVars
    /\ UNCHANGED <<chats, chat_users, messages, store_ok, now, sessions, mailbox, reqs>>

\* the interval of hb() fires: more than ClientTimeout without Ping or Pong stops
\* the actor, otherwise a ping is sent and the interval fires again in 5 s
WsHeartbeat(s) ==
    /\ s \in DOMAIN conns
    /\ conns[s].state = "live"
    /\ IF conns[s].hb_due > ClientTimeout
       THEN Stop(s, "heartbeat")
       ELSE /\ conns' = [conns EXCEPT ![s].hb_due = @ + HeartbeatInterval]
            /\ UNCHANGED <<chats, chat_users, messages, store_ok, now, sessions,
                           mailbox, reqs>>
            /\ UNCHANGED teamVars

\* a Disconnect handler that leaves the registry as it is
HandleDisconnectKeeps ==
    /\ mailbox # <<>>
    /\ Head(mailbox).type = "Disconnect"
    /\ conns' = [conns EXCEPT ![Head(mailbox).sess].deregistered = @ + 1]
    /\ mailbox' = Tail(mailbox)
    /\ UNCHANGED teamVars
    /\ UNCHANGED <<chats, chat_users, messages, store_ok, now, sessions, reqs>>

\* Handler<Disconnect>: self.sessions.remove(&msg.user_id)
HandleDisconnect ==
    /\ mailbox # <<>>
    /\ Head(mailbox).type = "Disconnect"
    /\ LET m == Head(mailbox) IN
       /\ sessions' = MapRemove(sessions, m.user_id)
       /\ conns' = [conns EXCEPT ![m.sess].deregistered = @ + 1]
    /\ mailbox' = Tail(mailbox)
    /\ UNCHANGED teamVars
    /\ UNCHANGED <<chats, chat_users, messages, store_ok, now, reqs>>

\* ------------------------------------------------------------------ socket ingest
\* a submitted chat message and the future serving it. auth is the user the
\* transport authenticated (on a socket, the session's own id); store_err records
\* that a store call made while serving it answered Err
NewReq(kind, sender, chat, pc) ==
    [kind |-> kind, sender_id |-> sender, id_chat |-> chat, pc |-> pc,
     sessions |-> EmptyMap, participants |-> <<>>, created_at |-> 0, status |-> 0,
     regAtCommit |-> EmptyMap, auth |-> sender, store_err |-> FALSE]

\* StreamHandler, Text arm: a frame that parses is forwarded as ClientMessage with
\* sender_id = self.id
WsText(s, c) ==
    /\ s \in DOMAIN conns
    /\ conns[s].state = "live"
    /\ reqs' = Append(reqs, NewReq("ws", conns[s].id, c, "queued"))
    /\ mailbox' = Append(mailbox, Envelope("ClientMessage", s, conns[s].id, c, Len(reqs) + 1))
    /\ UNCHANGED teamVars
    /\ UNCHANGED <<chats, chat_users, messages, store_ok, now, sessions, conns>>

\* the Err arm stopping the actor, as the protocol-error arm does
WsFrameStopsOnErr(s, f) ==
    /\ s \in DOMAIN conns
    /\ conns[s].state = "live"
    /\ IF ParseIncoming(f) = "ok"
       THEN /\ reqs' = Append(reqs, NewReq("ws", conns[s].id, f.id_chat, "queued"))
            /\ mailbox' = Append(mailbox, Envelope("ClientMessage", s, conns[s].id,
                                                   f.id_chat, Len(reqs) + 1))
            /\ conns' = [conns EXCEPT ![s].received = @ + 1,
                                      ![s].last = [frame |-> f, req |-> Len(reqs) + 1]]
       ELSE /\ conns' = [conns EXCEPT ![s].received = @ + 1, ![s].dropped = @ + 1,
                                      ![s].last = [frame |-> f, req |-> 0],
                                      ![s].state = "closed"]
            /\ mailbox' = Append(mailbox, Envelope("Disconnect", s, conns[s].id, "", 0))
            /\ reqs' = reqs
    /\ UNCHANGED teamVars
    /\ UNCHANGED <<chats, chat_users, messages, store_ok, now, sessions>>

\* the Text arm taking the sender from the frame's recipient_id field
WsFrameSenderFromFrame(s, f) ==
    /\ s \in DOMAIN conns
    /\ conns[s].state = "live"
    /\ IF ParseIncoming(f) = "ok"
       THEN /\ reqs' = Append(reqs, NewReq("ws", f.recipient_id, f.id_chat, "queued"))
            /\ mailbox' = Append(mailbox, Envelope("ClientMessage", s, f.recipient_id,
                                                   f.id_chat, Len(reqs) + 1))
            /\ conns' = [conns EXCEPT ![s].received = @ + 1,
                                      ![s].last = [frame |-> f, req |-> Len(reqs) + 1]]
       ELSE /\ conns' = [conns EXCEPT ![s].received = @ + 1, ![s].dropped = @ + 1,
                                      ![s].last = [frame |-> f, req |-> 0]]
            /\ UNCHANGED <<reqs, mailbox>>
    /\ UNCHANGED teamVars
    /\ UNCHANGED <<chats, chat_users, messages, store_ok, now, sessions>>

\* StreamHandler, the whole Text arm for the frame f: Ok(incoming_msg) forwards a
\* ClientMessage with sender_id = self.id and the frame's id_chat, Err(e) prints
\* the error and does nothing else
WsFrame(s, f) ==
    /\ s \in DOMAIN conns
    /\ conns[s].state = "live"
    /\ IF ParseIncoming(f) = "ok"
       THEN /\ reqs' = Append(reqs, NewReq("ws", conns[s].id, f.id_chat, "queued"))
            /\ mailbox' = Append(mailbox, Envelope("ClientMessage", s, conns[s].id,
                                                   f.id_chat, Len(reqs) + 1))
            /\ conns' = [conns EXCEPT ![s].received = @ + 1,
                                      ![s].last = [frame |-> f, req |-> Len(reqs) + 1]]
       ELSE /\ conns' = [conns EXCEPT ![s].received = @ + 1, ![s].dropped = @ + 1,
                                      ![s].last = [frame |-> f, req |-> 0]]
            /\ UNCHANGED <<reqs, mailbox>>
    /\ UNCHANGED teamVars
    /\ UNCHANGED <<chats, chat_users, messages, store_ok, now, sessions>>

\* Handler<ClientMessage>: clone the registry and spawn the task. The task's first
\* part runs up to the insert's await: find the chat, test membership, build the
\* Message with created_at = Utc::now(). The lookup is taken at the handler's own
\* step: a conversation created (CreateChat) or deleted (DeleteChatDeleteOne)
\* while the lookup is under way is taken as created or deleted after it.
HandleClientMessage ==
    /\ mailbox # <<>>
    /\ Head(mailbox).type = "ClientMessage"
    /\ LET r == Head(mailbox).req IN
       IF /\ FindChat(reqs[r].id_chat) = "some"
          /\ IsParticipant(chats[reqs[r].id_chat].participants, reqs[r].sender_id)
       THEN reqs' = [reqs EXCEPT ![r].pc = "insert", ![r].created_at = now,
                                 ![r].sessions = sessions,
                                 ![r].participants = chats[reqs[r].id_chat].participants]
       ELSE reqs' = [reqs EXCEPT ![r].pc = "done", ![r].sessions = sessions,
                                 ![r].store_err = (FindChat(reqs[r].id_chat) = "err")]
    /\ mailbox' = Tail(mailbox)
    /\ UNCHANGED teamVars
    /\ UNCHANGED <<chats, chat_users, messages, store_ok, now, sessions, conns>>

\* let _ = msg_collection.insert_one(&message).await : the store commits or fails,
\* and the result is discarded
ClientMessageInsert(r) ==
    /\ r \in DOMAIN reqs
    /\ reqs[r].kind = "ws"
    /\ reqs[r].pc = "insert"
    /\ messages' = IF store_ok THEN Append(messages, NewMessage(r)) ELSE messages
    /\ reqs' = [reqs EXCEPT ![r].pc = "fanout", ![r].regAtCommit = sessions,
                            ![r].store_err = ~store_ok]
    /\ UNCHANGED teamVars
    /\ UNCHANGED <<chats, chat_users, store_ok, now, sessions, mailbox, conns>>

\* the task resumes after the await and pushes to the snapshot's addresses
ClientMessageFanOut(r) ==
    /\ r \in DOMAIN reqs
    /\ reqs[r].kind = "ws"
    /\ reqs[r].pc = "fanout"
    /\ conns' = FanOut(conns, reqs[r].sessions, reqs[r].participants, ChatMessage(r))
    /\ reqs' = [reqs EXCEPT ![r].pc = "done"]
    /\ UNCHANGED teamVars
    /\ UNCHANGED <<chats, chat_users, messages, store_ok, now, sessions, mailbox>>

\* ------------------------------------------------------------------ HTTP ingest
\* the request carries no authenticated user
NoUser == "none"

\* create_message: POST /messages/{chat_id} with body {sender_id: u, content}, sent
\* by a caller authenticated as a; req: HttpRequest is never read. One find_one
\* with the participants filter, anything but Ok(Some) answers 400; otherwise
\* CreateMessage is sent to the hub
HttpPost(a, u, c) ==
    /\ IF FindChatWithParticipant(c, u) = "some"
       THEN /\ reqs' = Append(reqs, [NewReq("http", u, c, "queued") EXCEPT !.auth = a])
            /\ mailbox' = Append(mailbox, Envelope("CreateMessage", 0, u, c, Len(reqs) + 1))
       ELSE /\ reqs' = Append(reqs, [NewReq("http", u, c, "done") EXCEPT
                                        !.auth = a, !.status = 400,
                                        !.store_err = (FindChatWithParticipant(c, u) = "err")])
            /\ mailbox' = mailbox
    /\ UNCHANGED teamVars
    /\ UNCHANGED <<chats, chat_users, messages, store_ok, now, sessions, conns>>

\* Handler<CreateMessage>: returns a ResponseFuture that touches no hub state. Its
\* first part runs up to the insert's await; every Err(()) becomes a 500
HandleCreateMessage ==
    /\ mailbox # <<>>
    /\ Head(mailbox).type = "CreateMessage"
    /\ LET r == Head(mailbox).req IN
       IF /\ FindChat(reqs[r].id_chat) = "some"
          /\ IsParticipant(chats[reqs[r].id_chat].participants, reqs[r].sender_id)
       THEN reqs' = [reqs EXCEPT ![r].pc = "insert", ![r].created_at = now,
                                 ![r].participants = chats[reqs[r].id_chat].participants]
       ELSE reqs' = [reqs EXCEPT ![r].pc = "done", ![r].status = 500,
                                 ![r].store_err = (FindChat(reqs[r].id_chat) = "err")]
    /\ mailbox' = Tail(mailbox)
    /\ UNCHANGED teamVars
    /\ UNCHANGED <<chats, chat_users, messages, store_ok, now, sessions, conns>>

\* insert_one(..).await.map_err(|_| ())? ; Ok(MessageResponse{..}) answers 200
CreateMessageInsert(r) ==
    /\ r \in DOMAIN reqs
    /\ reqs[r].kind = "http"
    /\ reqs[r].pc = "insert"
    /\ IF store_ok
       THEN /\ messages' = Append(messages, NewMessage(r))
            /\ reqs' = [reqs EXCEPT ![r].pc = "done", ![r].status = 200,
                                    ![r].regAtCommit = sessions]
       ELSE /\ messages' = messages
            /\ reqs' = [reqs EXCEPT ![r].pc = "done", ![r].status = 500,
                                    ![r].store_err = TRUE]
    /\ UNCHANGED teamVars
    /\ UNCHANGED <<chats, chat_users, store_ok, now, sessions, mailbox, conns>>

\* ------------------------------------------------------------------ conversations
\* the id create_chat mints for the conversation it creates
NewChatId == "c2"

\* participant lists a client posts to POST /chats: the endpoint takes any Vec
NewChatParticipants ==
    {<<>>, <<"u1", "u2">>, <<"u1", "u2", "u3">>, <<"u1", "u2", "u2">>,
     <<"u2", "u1", "u1">>, <<"u3", "u3">>}

\* create_chat: the Chat document carries chat_info.participants as posted; a
\* failed insert_one answers 500 and stores nothing
CreateChat(id, ps) ==
    /\ store_ok
    /\ id \notin DOMAIN chats
    /\ chats' = [c \in (DOMAIN chats) \cup {id} |->
                    IF c = id THEN ChatDoc(ps, now) ELSE chats[c]]
    /\ UNCHANGED teamVars
    /\ UNCHANGED <<chat_users, messages, store_ok, now, sessions, mailbox, conns, reqs>>

\* delete_chat, DELETE /chats/{c} by a caller authenticated as a, up to the answer
\* of find_one: no identity answers 401, Err 500, no document 404, a caller that is
\* not a participant 401; otherwise delete_one is issued
DeleteChatFind(a, c) ==
    /\ reqs' = Append(reqs,
          IF a = NoUser THEN [NewReq("delete", a, c, "done") EXCEPT !.status = 401]
          ELSE IF FindChat(c) = "err"
               THEN [NewReq("delete", a, c, "done") EXCEPT !.status = 500,
                                                           !.store_err = TRUE]
          ELSE IF FindChat(c) = "none"
               THEN [NewReq("delete", a, c, "done") EXCEPT !.status = 404]
          ELSE IF ~Contains(chats[c].participants, a)
               THEN [NewReq("delete", a, c, "done") EXCEPT !.status = 401]
          ELSE NewReq("delete", a, c, "delete_one"))
    /\ UNCHANGED teamVars
    /\ UNCHANGED <<chats, chat_users, messages, store_ok, now, sessions, mailbox, conns>>

\* chats_collection.delete_one(filter): Err answers 500, Ok goes on to the purge
DeleteChatDeleteOne(r) ==
    /\ r \in DOMAIN reqs
    /\ reqs[r].kind = "delete"
    /\ reqs[r].pc = "delete_one"
    /\ IF store_ok
       THEN /\ chats' = MapRemove(chats, reqs[r].id_chat)
            /\ reqs' = [reqs EXCEPT ![r].pc = "delete_many"]
       ELSE /\ chats' = chats
            /\ reqs' = [reqs EXCEPT ![r].pc = "done", ![r].status = 500,
                                    ![r].store_err = TRUE]
    /\ UNCHANGED teamVars
    /\ UNCHANGED <<chat_users, messages, store_ok, now, sessions, mailbox, conns>>

\* let _ = messages_collection.delete_many(doc!{"id_chat": c}).await : the result is
\* discarded and the answer is 200
DeleteChatDeleteMany(r) ==
    /\ r \in DOMAIN reqs
    /\ reqs[r].kind = "delete"
    /\ reqs[r].pc = "delete_many"
    /\ messages' = IF store_ok
                   THEN SelectSeq(messages, LAMBDA m : m.id_chat # reqs[r].id_chat)
                   ELSE messages
    /\ reqs' = [reqs EXCEPT ![r].pc = "done", ![r].status = 200,
                            ![r].store_err = ~store_ok]
    /\ UNCHANGED teamVars
    /\ UNCHANGED <<chats, chat_users, store_ok, now, sessions, mailbox, conns>>

\* ------------------------------------------------------------------ signals
\* the participant lists of the calendar events created
EventParticipants ==
    {<<u>> : u \in Users} \cup {<<u, v>> : u \in Users, v \in Users}

\* create_event, after the event's insert_one answered Ok: one RelaySignal
\* {user_id: participant, chat_id: "", message} is posted to the hub for every
\* entry of payload.participants; a failed insert posts nothing
CreateEvent(ps) ==
    /\ store_ok
    /\ reqs' = reqs \o [i \in 1..Len(ps) |-> NewReq("signal", ps[i], "", "queued")]
    /\ mailbox' = mailbox \o [i \in 1..Len(ps) |->
                                Envelope("RelaySignal", 0, ps[i], "", Len(reqs) + i)]
    /\ UNCHANGED teamVars
    /\ UNCHANGED <<chats, chat_users, messages, store_ok, now, sessions, conns>>

\* the users a signal of user origin for conversation c goes to: the other
\* participants when c is not empty and resolves to a conversation, else every
\* other user of the registry
SignalRecipients(origin, c) ==
    IF c # "" /\ FindChat(c) = "some"
    THEN {u \in DOMAIN sessions : u # origin /\ Contains(chats[c].participants, u)}
    ELSE {u \in DOMAIN sessions : u # origin}

\* one push to the registered endpoint of each of the users
RECURSIVE Broadcast(_, _, _, _)
Broadcast(cs, snap, users, cm) ==
    IF users = {} THEN cs
    ELSE LET u == CHOOSE x \in users : TRUE
         IN Broadcast(DoSend(cs, snap, u, cm), snap, users \ {u}, cm)

\* Handler<RelaySignal>: the payload is pushed as it is to the recipients' endpoints
\* and nothing is stored
HandleRelaySignal ==
    /\ mailbox # <<>>
    /\ Head(mailbox).type = "RelaySignal"
    /\ LET r == Head(mailbox).req IN
       /\ conns' = Broadcast(conns, sessions,
                             SignalRecipients(reqs[r].sender_id, reqs[r].id_chat),
                             ChatMessage(r))
       /\ reqs' = [reqs EXCEPT ![r].pc = "done", ![r].sessions = sessions]
    /\ mailbox' = Tail(mailbox)
    /\ UNCHANGED teamVars
    /\ UNCHANGED <<chats, chat_users, messages, store_ok, now, sessions>>

\* ------------------------------------------------------------------ teams
\* find_one on "user_teams" with the filter {team_id, user_id}
FindUserTeam(t, u) ==
    IF ~store_ok THEN "err"
    ELSE IF \E i \in 1..Len(user_teams) :
               user_teams[i].team_id = t /\ user_teams[i].user_id = u
         THEN "some" ELSE "none"

\* find_one on "team_invitations" with the filter {invitation_id}; the place of an
\* invitation in the collection stands for its minted Uuid, and 0 is an id that no
\* invitation carries
FindInvitation(i) ==
    IF ~store_ok THEN "err" ELSE IF i \in DOMAIN team_invitations THEN "some" ELSE "none"

InvitationIds == {0, 1}

\* invite_user, the path that inserts: the caller is an admin of the team, the
\* invitee is no member and has no pending invitation. Every other path answers
\* an error and writes nothing
InviteUser(a, t, u) ==
    /\ store_ok
    /\ \E i \in 1..Len(user_teams) :
          /\ user_teams[i].team_id = t /\ user_teams[i].user_id = a
          /\ user_teams[i].role = "admin"
    /\ FindUserTeam(t, u) # "some"
    /\ ~\E i \in 1..Len(team_invitations) :
          /\ team_invitations[i].team_id = t /\ team_invitations[i].invitee_id = u
          /\ team_invitations[i].status = "pending"
    /\ team_invitations' = Append(team_invitations,
          [invitation_id |-> Len(team_invitations) + 1, team_id |-> t,
           invitee_id |-> u, inviter_id |-> a, status |-> "pending"])
    /\ UNCHANGED <<chats, chat_users, messages, store_ok, now, sessions, mailbox, conns,
                   reqs, user_teams, calls>>

\* a call and the future serving it: op is the endpoint or hub message, target the
\* id it names, status the answer (0: none yet), wrote records that a write of the
\* call was acknowledged by the store
NewCall(op, user, target, pc, status) ==
    [op |-> op, user_id |-> user, target |-> target, pc |-> pc, status |-> status,
     wrote |-> FALSE]

\* the answer of call k
Answer(k, status) == [calls EXCEPT ![k].pc = "done", ![k].status = status]

\* accept_invitation / decline_invitation arriving from a caller authenticated as
\* a: without an authenticated user the answer is 401 at once
RespondInvitation(op, a, i) ==
    /\ calls' = Append(calls, IF a = NoUser THEN NewCall(op, a, i, "done", 401)
                                             ELSE NewCall(op, a, i, "find", 0))
    /\ UNCHANGED <<chats, chat_users, messages, store_ok, now, sessions, mailbox, conns,
                   reqs, team_invitations, user_teams>>

\* both endpoints up to the await of update_one: find_one by invitation_id (None
\* is 404, Err is 500), the caller must be the invitee (401) and the status read
\* must be "pending" (400)
InvitationFind(k) ==
    /\ k \in DOMAIN calls
    /\ calls[k].op \in {"accept", "decline"}
    /\ calls[k].pc = "find"
    /\ calls' = IF FindInvitation(calls[k].target) = "err" THEN Answer(k, 500)
                ELSE IF FindInvitation(calls[k].target) = "none" THEN Answer(k, 404)
                ELSE IF team_invitations[calls[k].target].invitee_id # calls[k].user_id
                     THEN Answer(k, 401)
                ELSE IF team_invitations[calls[k].target].status # "pending"
                     THEN Answer(k, 400)
                ELSE [calls EXCEPT ![k].pc = "update"]
    /\ UNCHANGED <<chats, chat_users, messages, store_ok, now, sessions, mailbox, conns,
                   reqs, team_invitations, user_teams>>

\* update_one({invitation_id}, $set status): the filter names the id only, so the
\* status found now is overwritten whatever it is. Err is 500; decline answers 200,
\* accept goes on to the membership
InvitationUpdate(k) ==
    /\ k \in DOMAIN calls
    /\ calls[k].op \in {"accept", "decline"}
    /\ calls[k].pc = "update"
    /\ IF ~store_ok
       THEN /\ calls' = Answer(k, 500)
            /\ team_invitations' = team_invitations
       ELSE /\ team_invitations' =
                  [team_invitations EXCEPT ![calls[k].target].status =
                      IF calls[k].op = "accept" THEN "accepted" ELSE "declined"]
            /\ calls' = IF calls[k].op = "decline"
                        THEN [Answer(k, 200) EXCEPT ![k].wrote = TRUE]
                        ELSE [calls EXCEPT ![k].pc = "membership", ![k].wrote = TRUE]
    /\ UNCHANGED <<chats, chat_users, messages, store_ok, now, sessions, mailbox, conns,
                   reqs, user_teams>>

\* accept_invitation, find_one on user_teams: Ok(Some) answers 400, every other
\* answer, Err included, goes on to the insert
AcceptMembership(k) ==
    /\ k \in DOMAIN calls
    /\ calls[k].op = "accept"
    /\ calls[k].pc = "membership"
    /\ calls' = IF FindUserTeam(team_invitations[calls[k].target].team_id,
                                calls[k].user_id) = "some"
                THEN Answer(k, 400)
                ELSE [calls EXCEPT ![k].pc = "insert"]
    /\ UNCHANGED <<chats, chat_users, messages, store_ok, now, sessions, mailbox, conns,
                   reqs, team_invitations, user_teams>>

\* accept_invitation, insert_one(UserTeam{role: "member"}): Ok is 200, Err is 500
AcceptInsert(k) ==
    /\ k \in DOMAIN calls
    /\ calls[k].op = "accept"
    /\ calls[k].pc = "insert"
    /\ IF ~store_ok
       THEN /\ calls' = Answer(k, 500)
            /\ user_teams' = user_teams
       ELSE /\ user_teams' = Append(user_teams,
                   [team_id |-> team_invitations[calls[k].target].team_id,
                    user_id |-> calls[k].user_id, role |-> "member"])
            /\ calls' = Answer(k, 200)
    /\ UNCHANGED <<chats, chat_users, messages, store_ok, now, sessions, mailbox, conns,
                   reqs, team_invitations>>

\* ------------------------------------------------------------------ message edits
\* the message ids an edit names; 0 is an id that no message carries
MessageIds == {0, 1}

\* UpdateMessage.new_content
NewContent == "m2"

\* find_one(doc!{"_id": id}) on "messages"
FindMessage(id) ==
    IF ~store_ok THEN "err"
    ELSE IF \E i \in 1..Len(messages) : messages[i].id = id THEN "some" ELSE "none"

\* the document find_one answers with
MessageDoc(id) == messages[CHOOSE i \in 1..Len(messages) : messages[i].id = id]

\* replace_one(filter, &message): the document with this _id, if there still is
\* one, becomes the document read earlier with its content replaced
ReplaceOne(ms, id, content) ==
    [i \in 1..Len(ms) |-> IF ms[i].id = id THEN [ms[i] EXCEPT !.content = content]
                                            ELSE ms[i]]

\* delete_one(filter)
DeleteOne(ms, id) == SelectSeq(ms, LAMBDA m : m.id # id)

\* hub.send(UpdateMessage{user_id, message_id, new_content}) or
\* hub.send(DeleteMessage{user_id, message_id}) by some caller
SendEdit(op, u, id) ==
    /\ calls' = Append(calls, NewCall(op, u, id, "queued", 0))
    /\ mailbox' = Append(mailbox, Envelope(op, 0, u, "", Len(calls) + 1))
    /\ UNCHANGED <<chats, chat_users, messages, store_ok, now, sessions, conns, reqs,
                   team_invitations, user_teams>>

\* Handler<UpdateMessage> / Handler<DeleteMessage>: the handler clones the store
\* handle and returns a ResponseFuture; it touches no hub state
HandleEditMessage ==
    /\ mailbox # <<>>
    /\ Head(mailbox).type \in {"UpdateMessage", "DeleteMessage"}
    /\ calls' = [calls EXCEPT ![Head(mailbox).req].pc = "find"]
    /\ mailbox' = Tail(mailbox)
    /\ UNCHANGED <<chats, chat_users, messages, store_ok, now, sessions, conns, reqs,
                   team_invitations, user_teams>>

\* the sender test left out of the future
EditFindAnySender(k) ==
    /\ k \in DOMAIN calls
    /\ calls[k].op \in {"UpdateMessage", "DeleteMessage"}
    /\ calls[k].pc = "find"
    /\ calls' = IF FindMessage(calls[k].target) # "some" THEN Answer(k, 500)
                ELSE [calls EXCEPT ![k].pc = "write"]
    /\ UNCHANGED <<chats, chat_users, messages, store_ok, now, sessions, mailbox, conns,
                   reqs, team_invitations, user_teams>>

\* the future up to the await of the write: find_one(..).map_err(|_| ())?,
\* ok_or(())?, and Err(()) when message.sender_id != msg.user_id. Err(()) is
\* recorded as 500, Ok as 200
EditFind(k) ==
    /\ k \in DOMAIN calls
    /\ calls[k].op \in {"UpdateMessage", "DeleteMessage"}
    /\ calls[k].pc = "find"
    /\ calls' = IF FindMessage(calls[k].target) # "some" THEN Answer(k, 500)
                ELSE IF MessageDoc(calls[k].target).sender_id # calls[k].user_id
                     THEN Answer(k, 500)
                ELSE [calls EXCEPT ![k].pc = "write"]
    /\ UNCHANGED <<chats, chat_users, messages, store_ok, now, sessions, mailbox, conns,
                   reqs, team_invitations, user_teams>>

\* replace_one / delete_one and the answer: Err(()) when the store fails, Ok
\* otherwise, also when the filter matches no document any more
EditWrite(k) ==
    /\ k \in DOMAIN calls
    /\ calls[k].op \in {"UpdateMessage", "DeleteMessage"}
    /\ calls[k].pc = "write"
    /\ IF ~store_ok
       THEN /\ calls' = Answer(k, 500)
            /\ messages' = messages
       ELSE /\ messages' = IF calls[k].op = "UpdateMessage"
                           THEN ReplaceOne(messages, calls[k].target, NewContent)
                           ELSE DeleteOne(messages, calls[k].target)
            /\ calls' = [Answer(k, 200) EXCEPT ![k].wrote = TRUE]
    /\ UNCHANGED <<chats, chat_users, store_ok, now, sessions, mailbox, conns, reqs,
                   team_invitations, user_teams>>

\* ------------------------------------------------------------------ specifications
\* the hub's and the futures' own steps
HubStep ==
    \/ HandleConnect
    \/ HandleDisconnect
    \/ HandleClientMessage
    \/ HandleCreateMessage
    \/ \E r \in DOMAIN reqs : ClientMessageInsert(r)
    \/ \E r \in DOMAIN reqs : ClientMessageFanOut(r)
    \/ \E r \in DOMAIN reqs : CreateMessageInsert(r)

\* every input, an unreliable store and a running clock
Next ==
    \/ HubStep
    \/ Len(conns) < MaxSess /\ \E u \in Users, c \in ChatIds : WsStarted(u, c)
    \/ \E s \in DOMAIN conns : WsStopped(s)
    \/ Len(reqs) < MaxMsgs /\ \E s \in DOMAIN conns, c \in ChatIds : WsText(s, c)
    \/ Len(reqs) < MaxMsgs /\ \E u \in Users, c \in ChatIds : HttpPost(u, u, c)
    \/ StoreFails
    \/ StoreRecovers
    \/ now < MaxClock /\ Tick

Spec == Init /\ [][Next]_vars

\* two participants exchanging several messages over their sockets
NextBurst ==
    \/ HubStep
    \/ Len(conns) < BurstSess /\ \E u \in {"u1", "u2"} : WsStarted(u, "c1")
    \/ \E s \in DOMAIN conns : WsStopped(s)
    \/ Len(reqs) < BurstMsgs /\ \E s \in DOMAIN conns : WsText(s, "c1")
    \/ Len(reqs) < BurstMsgs /\ \E u \in {"u1", "u2"} : HttpPost(u, u, "c1")

SpecBurst == Init /\ [][NextBurst]_vars

\* sessions and messages of members and non-members of one conversation
NextCore ==
    \/ HubStep
    \/ Len(conns) < CoreSess /\ \E u \in Users : WsStarted(u, "c1")
    \/ \E s \in DOMAIN conns : WsStopped(s)
    \/ Len(reqs) < CoreMsgs /\ \E s \in DOMAIN conns : WsText(s, "c1")
    \/ Len(reqs) < CoreMsgs /\ \E u \in Users : HttpPost(u, u, "c1")

SpecCore == Init /\ [][NextCore]_vars

\* the session registry alone: sessions come and go, no message is sent
NextSessions ==
    \/ HandleConnect
    \/ HandleDisconnect
    \/ Len(conns) < MaxSess /\ \E u \in Users, c \in ChatIds : WsStarted(u, c)
    \/ \E s \in DOMAIN conns : WsStopped(s)
    \/ StoreFails
    \/ StoreRecovers

SpecSessions == Init /\ [][NextSessions]_vars

\* POSTs of every caller for every sender and conversation, the store unreliable
NextHttp ==
    \/ HandleCreateMessage
    \/ \E r \in DOMAIN reqs : CreateMessageInsert(r)
    \/ /\ Len(reqs) < HttpMsgs
       /\ \E a \in Users \cup {NoUser}, u \in Users, c \in ChatIds : HttpPost(a, u, c)
    \/ StoreFails
    \/ StoreRecovers

SpecHttp == Init /\ [][NextHttp]_vars

\* conversations created with any participant list, and messages sent to them
NextDup ==
    \/ HandleConnect
    \/ HandleDisconnect
    \/ HandleClientMessage
    \/ \E r \in DOMAIN reqs : ClientMessageInsert(r)
    \/ \E r \in DOMAIN reqs : ClientMessageFanOut(r)
    \/ Len(conns) < DupSess /\ \E u \in Users : WsStarted(u, "c1")
    \/ \E s \in DOMAIN conns : WsStopped(s)
    \/ Len(reqs) < DupMsgs /\ \E s \in DOMAIN conns, c \in {"c1", NewChatId} : WsText(s, c)
    \/ \E ps \in NewChatParticipants : CreateChat(NewChatId, ps)

SpecDup == Init /\ [][NextDup]_vars

\* what ends a session: close frames, errors, the heartbeat; frames and denied
\* registrations on the way
NextHeartbeat ==
    \/ HandleConnect
    \/ HandleDisconnect
    \/ HandleClientMessage
    \/ Len(conns) < HbSess /\ \E u \in Users : WsStarted(u, "c1")
    \/ \E s \in DOMAIN conns : WsClose(s)
    \/ \E s \in DOMAIN conns : WsError(s)
    \/ \E s \in DOMAIN conns, d \in PongOffsets : WsPong(s, d)
    \/ \E s \in DOMAIN conns : WsHeartbeat(s)
    \/ /\ FramesReceived(conns) < HbFrames
       /\ \E s \in DOMAIN conns, f \in {Garbage, IncomingFrame("c0")} : WsFrame(s, f)

SpecHeartbeat == Init /\ [][NextHeartbeat]_vars

\* appends of both ingest paths under way at once while the clock runs
NextClock ==
    \/ HubStep
    \/ Len(conns) < ClockSess /\ \E u \in {"u1", "u2"} : WsStarted(u, "c1")
    \/ \E s \in DOMAIN conns : WsStopped(s)
    \/ Len(reqs) < ClockMsgs /\ \E s \in DOMAIN conns : WsText(s, "c1")
    \/ Len(reqs) < ClockMsgs /\ \E u \in {"u1", "u2"} : HttpPost(u, u, "c1")
    \/ now < ClockTicks /\ Tick

SpecClock == Init /\ [][NextClock]_vars

\* the requests of one kind made so far
CountKind(kind) == Cardinality({r \in DOMAIN reqs : reqs[r].kind = kind})

\* a conversation deleted while messages are appended to it, the store unreliable
NextDelete ==
    \/ HandleCreateMessage
    \/ \E r \in DOMAIN reqs : CreateMessageInsert(r)
    \/ CountKind("http") < DelMsgs /\ \E u \in Users : HttpPost(u, u, "c1")
    \/ /\ CountKind("delete") < DelOps
       /\ \E a \in Users \cup {NoUser}, c \in ChatIds : DeleteChatFind(a, c)
    \/ \E r \in DOMAIN reqs : DeleteChatDeleteOne(r)
    \/ \E r \in DOMAIN reqs : DeleteChatDeleteMany(r)
    \/ StoreFails
    \/ StoreRecovers

SpecDelete == Init /\ [][NextDelete]_vars

\* the registry while the store takes its time to answer
NextBlocking ==
    \/ HandleConnectBlockOn
    \/ HandleConnectResume
    \/ HandleDisconnect
    \/ Len(conns) < BlockSess /\ \E u \in Users, c \in ChatIds : WsStarted(u, c)
    \/ \E s \in DOMAIN conns : WsStopped(s)
    \/ StoreFails
    \/ StoreRecovers

SpecBlocking == Init /\ [][NextBlocking]_vars

\* calendar invitations relayed to the sockets that come and go
NextSignal ==
    \/ HandleConnect
    \/ HandleDisconnect
    \/ HandleRelaySignal
    \/ Len(conns) < SigSess /\ \E u \in Users : WsStarted(u, "c1")
    \/ \E s \in DOMAIN conns : WsStopped(s)
    \/ \E ps \in EventParticipants : Len(reqs) + Len(ps) <= MaxSignals /\ CreateEvent(ps)

SpecSignal == Init /\ [][NextSignal]_vars

\* frames of every shape arriving on the sockets of members and non-members
NextFrames ==
    \/ HandleConnect
    \/ HandleDisconnect
    \/ HandleClientMessage
    \/ \E r \in DOMAIN reqs : ClientMessageInsert(r)
    \/ \E r \in DOMAIN reqs : ClientMessageFanOut(r)
    \/ Len(conns) < FrameSess /\ \E u \in Users : WsStarted(u, "c1")
    \/ \E s \in DOMAIN conns : WsStopped(s)
    \/ /\ FramesReceived(conns) < MaxFrames
       /\ \E s \in DOMAIN conns, f \in Frames :
             /\ ParseIncoming(f) = "ok" => Len(reqs) < FrameMsgs
             /\ WsFrame(s, f)

SpecFrames == Init /\ [][NextFrames]_vars

\* the team endpoints alone: one invitation, answered by concurrent calls while
\* the store fails and recovers
NextInvite ==
    \/ Len(team_invitations) < MaxInvites /\ InviteUser("u2", "t1", "u1")
    \/ /\ Len(calls) < MaxCalls
       /\ \E op \in {"accept", "decline"}, a \in {"u1", "u3", NoUser}, i \in InvitationIds :
             RespondInvitation(op, a, i)
    \/ \E k \in DOMAIN calls : InvitationFind(k)
    \/ \E k \in DOMAIN calls : InvitationUpdate(k)
    \/ \E k \in DOMAIN calls : AcceptMembership(k)
    \/ \E k \in DOMAIN calls : AcceptInsert(k)
    \/ StoreFails
    \/ StoreRecovers

SpecInvite == Init /\ [][NextInvite]_vars

\* messages posted over HTTP and edited or deleted by concurrent hub calls, the
\* store unreliable
NextModify ==
    \/ HandleCreateMessage
    \/ \E r \in DOMAIN reqs : CreateMessageInsert(r)
    \/ Len(reqs) < ModMsgs /\ \E u \in {"u1", "u2"} : HttpPost(u, u, "c1")
    \/ /\ Len(calls) < ModOps
       /\ \E op \in {"UpdateMessage", "DeleteMessage"}, u \in {"u1", "u2"}, id \in MessageIds :
             SendEdit(op, u, id)
    \/ HandleEditMessage
    \/ \E k \in DOMAIN calls : EditFind(k)
    \/ \E k \in DOMAIN calls : EditWrite(k)
    \/ StoreFails
    \/ StoreRecovers

SpecModify == Init /\ [][NextModify]_vars

\* ------------------------------------------------------------------ observations
\* the endpoint of session s is a value of the registry
Registered(s) == \E u \in DOMAIN sessions : sessions[u] = s

\* Disconnect envelopes of session s still waiting in the hub's mailbox
PendingDisconnects(s) ==
    Cardinality({i \in 1..Len(mailbox) :
                    mailbox[i].type = "Disconnect" /\ mailbox[i].sess = s})

\* Disconnect envelopes naming user u still waiting in the hub's mailbox
PendingDisconnectsOf(u) ==
    Cardinality({i \in 1..Len(mailbox) :
                    mailbox[i].type = "Disconnect" /\ mailbox[i].user_id = u})

\* how many chat pushes for message r session s was sent
Pushes(s, r) ==
    Cardinality({i \in 1..Len(conns[s].pushed) : conns[s].pushed[i].message = r})

\* message r is a document of the messages collection
Stored(r) == \E i \in 1..Len(messages) : messages[i].id = r

\* the place of message r in the store's insertion order
StorePos(r) == CHOOSE i \in 1..Len(messages) : messages[i].id = r

\* the sender of request r is a participant of the conversation it names
SenderIsMember(r) ==
    /\ reqs[r].id_chat \in DOMAIN chats
    /\ Contains(chats[reqs[r].id_chat].participants, reqs[r].sender_id)

\* the endpoints the hub's registry held for a recipient of r when r's insert
\* committed and holds still, their sessions running
RecipientEndpointsSinceCommit(r) ==
    {e \in DOMAIN conns :
        /\ conns[e].state = "live"
        /\ conns[e].id # reqs[r].sender_id
        /\ Contains(reqs[r].participants, conns[e].id)
        /\ conns[e].id \in DOMAIN reqs[r].regAtCommit
        /\ reqs[r].regAtCommit[conns[e].id] = e
        /\ conns[e].id \in DOMAIN sessions
        /\ sessions[conns[e].id] = e}

\* ------------------------------------------------------------------ claims
\* C1: every socket message that was accepted and committed has been pushed exactly
\* once, when its task is over, to every endpoint of another participant that was
\* registered when the insert committed and has stayed registered since.
C1_DeliveryCompleteness ==
    \A r \in DOMAIN reqs :
        (reqs[r].kind = "ws" /\ reqs[r].pc = "done" /\ Stored(r))
        => \A e \in RecipientEndpointsSinceCommit(r) : Pushes(e, r) = 1

\* C2: no session is ever sent a chat push whose sender_id is the session's own user.
C2_OriginatorExclusion ==
    \A s \in DOMAIN conns :
        \A i \in 1..Len(conns[s].pushed) : conns[s].pushed[i].sender_id # conns[s].id

\* C3: when a recipient has two accepted sessions A and B, both connected before the
\* hub took up the message and both still open when its task is over, A and B were
\* each sent the push exactly once.
C3_MultiDevice ==
    \A r \in DOMAIN reqs :
        (reqs[r].kind = "ws" /\ reqs[r].pc = "done" /\ Stored(r))
        => \A u \in DOMAIN reqs[r].sessions :
             LET B == reqs[r].sessions[u] IN
             \A A \in 1..(B - 1) :
                (/\ u # reqs[r].sender_id
                 /\ Contains(reqs[r].participants, u)
                 /\ conns[A].id = u /\ conns[A].accepted /\ conns[A].state = "live"
                 /\ conns[B].state = "live")
                => (Pushes(A, r) = 1 /\ Pushes(B, r) = 1)

\* C4: the open session whose Connect was the last one accepted for its user keeps
\* its endpoint in the registry, whatever other sessions of that user close.
C4_DeregisterIsolation ==
    \A s \in DOMAIN conns :
        (/\ conns[s].state = "live" /\ conns[s].accepted
         /\ \A s2 \in DOMAIN conns :
               (conns[s2].id = conns[s].id /\ conns[s2].accepted) => s2 <= s)
        => (conns[s].id \in DOMAIN sessions /\ sessions[conns[s].id] = s)

C7_PushOrder ==
    \A s \in DOMAIN conns :
        \A i, j \in 1..Len(conns[s].pushed) :
            LET a == conns[s].pushed[i]
                b == conns[s].pushed[j]
            IN (/\ i < j /\ a.chat_id = b.chat_id
                /\ a.sender_id # conns[s].id /\ b.sender_id # conns[s].id
                /\ Stored(a.message) /\ Stored(b.message))
               => StorePos(a.message) < StorePos(b.message)

\* C8: every chat push a session was sent is for a message that is in the store.
C8_PersistBeforePush ==
    \A s \in DOMAIN conns :
        \A i \in 1..Len(conns[s].pushed) : Stored(conns[s].pushed[i].message)

\* C9: a message whose sender is not a participant of the conversation it names is
\* never stored and never pushed to any session, on the socket and on the HTTP path.
C9_NonMemberRejected ==
    \A r \in DOMAIN reqs :
        ~SenderIsMember(r)
        => (~Stored(r) /\ \A s \in DOMAIN conns : Pushes(s, r) = 0)

\* C9 witness: the hub has dealt with a socket message of a non-member while a
\* participant of the conversation had a registered, open endpoint.
C9_Witness ==
    \E r \in DOMAIN reqs :
        /\ reqs[r].kind = "ws" /\ reqs[r].pc = "done"
        /\ reqs[r].id_chat \in DOMAIN chats
        /\ ~Contains(chats[reqs[r].id_chat].participants, reqs[r].sender_id)
        /\ \E u \in DOMAIN reqs[r].sessions :
              /\ Contains(chats[reqs[r].id_chat].participants, u)
              /\ conns[reqs[r].sessions[u]].state = "live"

\* C10: once a POST has answered 200 and the hub has nothing left to do, every
\* endpoint of another participant that was registered when the insert committed
\* and has stayed registered since has been sent one push for the message.
C10_HttpFansOut ==
    \A r \in DOMAIN reqs :
        (/\ reqs[r].kind = "http" /\ reqs[r].status = 200
         /\ mailbox = <<>>
         /\ \A q \in DOMAIN reqs : reqs[q].pc = "done")
        => \A e \in RecipientEndpointsSinceCommit(r) : Pushes(e, r) = 1

\* C11: the last frame a session handled, when it is a chat frame {chat_id, content}
\* naming a conversation the session's user participates in, became a message send
\* by that user to that conversation, and the message is in the store once its task
\* is over.
C11_ChatFrameIngest ==
    \A s \in DOMAIN conns : \A c \in DOMAIN chats :
        (conns[s].last.frame = ChatFrame(c) /\ Contains(chats[c].participants, conns[s].id))
        => /\ conns[s].last.req # 0
           /\ reqs[conns[s].last.req].sender_id = conns[s].id
           /\ reqs[conns[s].last.req].id_chat = c
           /\ reqs[conns[s].last.req].pc = "done" => Stored(conns[s].last.req)

\* C15: the last frame a session handled, when it is a signal frame (with or without
\* content) naming an existing conversation, was handed to the hub for relay and
\* wrote nothing to the store.
C15_SignalRelay ==
    \A s \in DOMAIN conns : \A c \in DOMAIN chats :
        conns[s].last.frame \in {SignalFrame(c), SignalContentFrame(c)}
        => (conns[s].last.req # 0 /\ ~Stored(conns[s].last.req))

\* C17: a step in which a session handles a frame that does not parse changes no
\* collection of the store, not the registry, not the hub's mailbox and no request;
\* no session is pushed anything or changes state, and the session is live after it.
C17_MalformedInert ==
    [][\A s \in DOMAIN conns :
          (/\ conns'[s].received = conns[s].received + 1
           /\ ParseIncoming(conns'[s].last.frame) = "err")
          => /\ UNCHANGED <<chats, chat_users, messages, sessions, mailbox, reqs>>
             /\ conns'[s].state = "live"
             /\ conns'[s].dropped = conns[s].dropped + 1
             /\ \A t \in DOMAIN conns :
                   /\ conns'[t].pushed = conns[t].pushed
                   /\ conns'[t].state = conns[t].state]_vars

\* C17 witness: a session that dropped a frame handled a later frame that parsed,
\* and the message it carried was stored.
C17_Witness ==
    \E s \in DOMAIN conns :
        /\ conns[s].dropped >= 1
        /\ conns[s].last.req # 0
        /\ reqs[conns[s].last.req].pc = "done"
        /\ Stored(conns[s].last.req)

\* C12: a POST whose body names a sender other than the caller's authenticated user,
\* or whose caller is not authenticated, stores nothing and is answered 401 or 403.
C12_SenderAuthenticated ==
    \A r \in DOMAIN reqs :
        (reqs[r].kind = "http" /\ reqs[r].auth # reqs[r].sender_id)
        => /\ ~Stored(r)
           /\ reqs[r].pc = "done" => reqs[r].status \in {401, 403}

\* C13: a POST served without a store error is answered 404 when its conversation
\* does not exist and 400 when it exists and the sender is not a participant.
C13_NotFoundVsNotMember ==
    \A r \in DOMAIN reqs :
        (reqs[r].kind = "http" /\ reqs[r].pc = "done" /\ ~reqs[r].store_err)
        => /\ reqs[r].id_chat \notin DOMAIN chats => reqs[r].status = 404
           /\ (reqs[r].id_chat \in DOMAIN chats /\ ~SenderIsMember(r))
                 => reqs[r].status = 400

\* C14: a POST during which a store call answered Err is answered with a 5xx status.
C14_StoreErrorIs5xx ==
    \A r \in DOMAIN reqs :
        (reqs[r].kind = "http" /\ reqs[r].pc = "done" /\ reqs[r].store_err)
        => reqs[r].status \in 500..599

\* C16: when the hub has relayed a signal whose chat_id is empty or names no
\* conversation, every session whose endpoint the registry held at that moment for
\* a user other than the originator, and which is still open, was pushed the signal
\* once; the sessions of the originator and the sessions whose endpoint the registry
\* did not hold were pushed nothing, and no session was pushed it twice.
C16_FallbackBroadcast ==
    \A r \in DOMAIN reqs :
        (/\ reqs[r].kind = "signal" /\ reqs[r].pc = "done"
         /\ (reqs[r].id_chat = "" \/ reqs[r].id_chat \notin DOMAIN chats))
        => \A s \in DOMAIN conns :
              LET u == conns[s].id
                  held == u \in DOMAIN reqs[r].sessions /\ reqs[r].sessions[u] = s
              IN /\ (held /\ u # reqs[r].sender_id /\ conns[s].state = "live")
                       => Pushes(s, r) = 1
                 /\ (u = reqs[r].sender_id \/ ~held) => Pushes(s, r) = 0
                 /\ Pushes(s, r) <= 1

\* C16 witness: a signal was relayed while the registry held the open endpoints of
\* the originator and of another user; the other user's session got it.
C16_Witness ==
    \E r \in DOMAIN reqs : \E s, t \in DOMAIN conns :
        /\ reqs[r].kind = "signal" /\ reqs[r].pc = "done" /\ reqs[r].id_chat = ""
        /\ conns[s].id = reqs[r].sender_id /\ conns[t].id # reqs[r].sender_id
        /\ reqs[r].sender_id \in DOMAIN reqs[r].sessions
        /\ reqs[r].sessions[reqs[r].sender_id] = s
        /\ conns[t].id \in DOMAIN reqs[r].sessions
        /\ reqs[r].sessions[conns[t].id] = t
        /\ Pushes(t, r) = 1 /\ Pushes(s, r) = 0

\* C18: no session of a user other than the sender is pushed the same chat message
\* twice, whatever participant list its conversation was created with, and a session
\* whose user had no endpoint in the registry when the hub took the message up is
\* pushed nothing for it.
C18_AtMostOnce ==
    \A r \in DOMAIN reqs : \A s \in DOMAIN conns :
        (reqs[r].kind = "ws" /\ conns[s].id # reqs[r].sender_id)
        => /\ Pushes(s, r) <= 1
           /\ conns[s].id \notin DOMAIN reqs[r].sessions => Pushes(s, r) = 0

\* C19: a step in which the hub handles the Connect of a session whose endpoint the
\* registry already holds for its user, or the Disconnect of a session whose
\* endpoint the registry does not hold, leaves the registry as it was.
C19_RegistryIdempotent ==
    [][(mailbox # <<>> /\ mailbox' = Tail(mailbox))
       => LET m == Head(mailbox) IN
          /\ (/\ m.type = "Connect"
              /\ m.user_id \in DOMAIN sessions
              /\ sessions[m.user_id] = m.sess) => sessions' = sessions
          /\ (m.type = "Disconnect" /\ ~Registered(m.sess)) => sessions' = sessions]_vars

C21_LastActivity ==
    \A i \in 1..Len(messages) :
        messages[i].id_chat \in DOMAIN chats
        => chats[messages[i].id_chat].last_message_at >= messages[i].created_at

\* C22: of two messages of one conversation, the one the store inserted later
\* carries a creation timestamp that is not smaller.
C22_TimestampOrder ==
    \A i, j \in 1..Len(messages) :
        (i < j /\ messages[i].id_chat = messages[j].id_chat)
        => messages[i].created_at <= messages[j].created_at

\* C23: while no conversation delete is between its delete_one and the end of its
\* purge, every stored message names a conversation that is in the store.
C23_MessagesReferToChats ==
    (\A r \in DOMAIN reqs : reqs[r].kind = "delete" => reqs[r].pc # "delete_many")
    => \A i \in 1..Len(messages) : messages[i].id_chat \in DOMAIN chats

\* C24: while a Connect or a Disconnect is in the hub's mailbox the hub is not
\* waiting for the store: the message at the head can be taken up, and the one
\* being handled completes without a store call.
C24_RegistryNeverWaits ==
    (\E i \in 1..Len(mailbox) : mailbox[i].type \in {"Connect", "Disconnect"})
    => Head(mailbox).type # "ConnectBlocked"

\* C25: every conversation in the store has at least one participant, names no user
\* twice, and is flagged a group exactly when more than 2 users participate.
C25_ConversationShape ==
    \A c \in DOMAIN chats :
        LET ps == chats[c].participants IN
        /\ Len(ps) >= 1
        /\ \A i, j \in 1..Len(ps) : ps[i] = ps[j] => i = j
        /\ chats[c].is_group = (Cardinality({ps[i] : i \in 1..Len(ps)}) > 2)

\* C26: the registry changes only when the hub handles a Connect or a Disconnect: an
\* accepted Connect makes the session's endpoint the one endpoint of its user, a
\* Disconnect leaves the user without endpoint; and no step pushes another user's
\* message to a session after a newer session of the same user has been accepted.
C26_LatestEndpointOnly ==
    [][/\ IF mailbox # <<>> /\ mailbox' = Tail(mailbox)
             /\ Head(mailbox).type \in {"Connect", "Disconnect"}
          THEN LET m == Head(mailbox) IN
               sessions' = IF m.type = "Disconnect" THEN MapRemove(sessions, m.user_id)
                           ELSE IF conns'[m.sess].accepted
                                THEN MapInsert(sessions, m.user_id, m.sess)
                                ELSE sessions
          ELSE sessions' = sessions
       /\ \A s \in DOMAIN conns :
             (/\ Len(conns'[s].pushed) > Len(conns[s].pushed)
              /\ conns'[s].pushed[Len(conns'[s].pushed)].sender_id # conns[s].id)
             => ~\E t \in DOMAIN conns :
                   t > s /\ conns[t].id = conns[s].id /\ conns[t].accepted]_vars

\* C27: a frame that a socket turns into a request gives the request the socket's own
\* user as sender, whatever the frame's fields say; a request never changes sender;
\* and every message stored and every push sent carries the sender of its request.
C27_SenderIsSocketUser ==
    [][/\ \A s \in DOMAIN conns :
             (conns'[s].received = conns[s].received + 1 /\ conns'[s].last.req # 0)
             => /\ conns'[s].last.req = Len(reqs) + 1
                /\ reqs'[conns'[s].last.req].sender_id = conns[s].id
       /\ \A r \in DOMAIN reqs : reqs'[r].sender_id = reqs[r].sender_id
       /\ \A i \in 1..Len(messages') :
             messages'[i].sender_id = reqs'[messages'[i].id].sender_id
       /\ \A s \in DOMAIN conns' : \A i \in 1..Len(conns'[s].pushed) :
             conns'[s].pushed[i].sender_id = reqs'[conns'[s].pushed[i].message].sender_id]_vars

\* a socket of a user other than the frame's recipient_id had its frame stored and pushed
C27_Witness ==
    \E s \in DOMAIN conns :
        /\ conns[s].last.req # 0
        /\ conns[s].last.frame.recipient_id # conns[s].id
        /\ Stored(conns[s].last.req)
        /\ messages[StorePos(conns[s].last.req)].sender_id = conns[s].id
        /\ \E t \in DOMAIN conns : Pushes(t, conns[s].last.req) >= 1

\* C28: the hub handling a Connect puts the session's endpoint under its user when
\* the store answers with a chat_users record for the pair, and leaves the registry
\* as it was when there is no record or the store fails; the hub handling a
\* Disconnect leaves the user without entry, whichever session the entry was of, and
\* touches no other user's entry.
C28_ConnectGate ==
    [][(mailbox # <<>> /\ mailbox' = Tail(mailbox))
       => LET m == Head(mailbox) IN
          /\ m.type = "Connect" =>
                IF store_ok /\ <<m.chat_id, m.user_id>> \in chat_users
                THEN /\ DOMAIN sessions' = DOMAIN sessions \cup {m.user_id}
                     /\ sessions'[m.user_id] = m.sess
                     /\ \A u \in DOMAIN sessions \ {m.user_id} : sessions'[u] = sessions[u]
                ELSE sessions' = sessions
          /\ m.type = "Disconnect" =>
                /\ DOMAIN sessions' = DOMAIN sessions \ {m.user_id}
                /\ \A u \in DOMAIN sessions' : sessions'[u] = sessions[u]]_vars

\* a session whose Connect was denied has closed and the hub has handled its
\* Disconnect, which took away the entry of a live, accepted session of the same user
C28_Witness ==
    \E s, t \in DOMAIN conns :
        /\ ~conns[s].accepted /\ conns[s].state = "closed" /\ conns[s].deregistered = 1
        /\ conns[t].id = conns[s].id
        /\ conns[t].accepted /\ conns[t].state = "live"
        /\ ~Registered(t)

\* C29: no step changes the status of an invitation that is accepted or declined,
\* a pending invitation only becomes accepted or declined, and an accept that is
\* answered with an error has written nothing.
C29_InvitationFinal ==
    [][/\ \A i \in DOMAIN team_invitations :
             IF team_invitations[i].status = "pending"
             THEN team_invitations'[i].status \in {"pending", "accepted", "declined"}
             ELSE team_invitations'[i].status = team_invitations[i].status
       /\ \A k \in DOMAIN calls' :
             (/\ calls'[k].op = "accept"
              /\ calls'[k].pc = "done"
              /\ calls'[k].status >= 400) => ~calls'[k].wrote]_vars

\* C30: a step that changes or removes a stored message is the write of an
\* UpdateMessage or DeleteMessage whose user_id is the message's sender_id, an update
\* changing nothing but the content; and a call whose lookup finds no message, or a
\* message of another sender, is answered Err by that step, which writes nothing.
C30_OnlySenderEdits ==
    [][/\ \A i \in 1..Len(messages) :
             (\A j \in 1..Len(messages') : messages'[j] # messages[i])
             => \E k \in DOMAIN calls :
                   /\ calls[k].pc = "write" /\ calls'[k].pc = "done"
                   /\ calls'[k].status = 200
                   /\ calls[k].target = messages[i].id
                   /\ calls[k].user_id = messages[i].sender_id
                   /\ IF calls[k].op = "DeleteMessage"
                      THEN \A j \in 1..Len(messages') : messages'[j].id # messages[i].id
                      ELSE \E j \in 1..Len(messages') :
                              messages'[j] = [messages[i] EXCEPT !.content = NewContent]
       /\ \A k \in DOMAIN calls :
             (/\ calls[k].op \in {"UpdateMessage", "DeleteMessage"}
              /\ calls[k].pc = "find" /\ calls'[k] # calls[k]
              /\ \A i \in 1..Len(messages) :
                    messages[i].id = calls[k].target
                    => messages[i].sender_id # calls[k].user_id)
             => /\ calls'[k].pc = "done" /\ calls'[k].status = 500
                /\ ~calls'[k].wrote
                /\ messages' = messages]_vars

\* a message was edited by its sender, and another user's call on the same message
\* was answered Err
C30_Witness ==
    \E k1, k2 \in DOMAIN calls : \E i \in 1..Len(messages) :
        /\ calls[k1].op = "UpdateMessage" /\ calls[k1].status = 200 /\ calls[k1].wrote
        /\ messages[i].id = calls[k1].target
        /\ messages[i].sender_id = calls[k1].user_id
        /\ messages[i].content = NewContent
        /\ calls[k2].target = messages[i].id
        /\ calls[k2].user_id # messages[i].sender_id
        /\ calls[k2].pc = "done" /\ calls[k2].status = 500

====
